---- MODULE Spec2Model ----
(***************************************************************************)
(* A model of amalgo's path filter (src/pkg/filter/filter.go, lines 1-190).*)
(*                                                                         *)
(* Go strings are modelled as sequences of one-character strings, so that  *)
(* every string operation of the source (prefix tests, slicing, literal    *)
(* replacement, trimming) is computed character by character.  A compiled  *)
(* *regexp.Regexp is represented by the text it was compiled from; a nil   *)
(* *regexp.Regexp (regexp.Compile returned an error) by NilRegexp.         *)
(*                                                                         *)
(* An intermediate result that is used more than once is bound by a set    *)
(* constructor over a one-element set, CHOOSE out \in {e(x) : x \in {v}},   *)
(* or by \E x \in {v}, rather than by LET: the bound x holds the value of v *)
(* itself, computed once.                                                  *)
(***************************************************************************)
EXTENDS Integers, Sequences, FiniteSets, TLC

(***************************************************************************)
(* Bounds of the model.                                                    *)
(***************************************************************************)
\* Number of lines in one CompileFilterPatterns call.
MaxLines == 3
\* Length of the exhaustively enumerated lines of SpecLine.
MaxLineLen == 3
\* Number of '!' characters put in front of a line in SpecLine.
MaxBang == 3
\* The longest glob of one path segment in SpecGlob.
MaxGlobLen == 2
\* The deepest path of SpecGlob, in names.
MaxDepth == 3

(***************************************************************************)
(* Strings.                                                                *)
(***************************************************************************)
\* The characters '\a' (bell), '\v' (vertical tab), U+0085 and U+00A0, which
\* have no TLA+ string escape.
BEL == "<BEL>"
VT == "<VT>"
NEL == "<NEL>"
NBSP == "<NBSP>"
CR == "\r"

\* strings.HasPrefix
HasPrefix(s, prefix) ==
    /\ Len(prefix) <= Len(s)
    /\ SubSeq(s, 1, Len(prefix)) = prefix

\* strings.HasSuffix
HasSuffix(s, suffix) ==
    /\ Len(suffix) <= Len(s)
    /\ SubSeq(s, Len(s) - Len(suffix) + 1, Len(s)) = suffix

\* s[n:] of Go (n counted from 0); the caller guarantees n <= len(s).
SliceFrom(s, n) == SubSeq(s, n + 1, Len(s))

\* strings.Replace(s, old, new, -1) for a non-empty old: the leftmost
\* occurrences, not overlapping, are replaced.  regexp.ReplaceAllString does
\* the same when the expression matches one literal text and the replacement
\* holds no '$' followed by a name, which is the case of every call in
\* getPatternFromLine ("$~" is no variable reference, the '$' stays as it is).
RECURSIVE ReplaceAll(_, _, _)
ReplaceAll(s, old, new) ==
    IF Len(s) < Len(old) THEN s
    ELSE IF HasPrefix(s, old)
         THEN new \o ReplaceAll(SliceFrom(s, Len(old)), old, new)
         ELSE <<Head(s)>> \o ReplaceAll(Tail(s), old, new)

\* unicode.IsSpace for the characters below U+0100.
IsSpace(c) == c \in {" ", "\t", "\n", VT, "\f", CR, NEL, NBSP}

\* strings.TrimRight(s, "\r")
RECURSIVE TrimRightCR(_)
TrimRightCR(s) ==
    IF s # <<>> /\ s[Len(s)] = CR THEN TrimRightCR(SubSeq(s, 1, Len(s) - 1)) ELSE s

RECURSIVE TrimLeftSpace(_)
TrimLeftSpace(s) ==
    IF s # <<>> /\ IsSpace(Head(s)) THEN TrimLeftSpace(Tail(s)) ELSE s

RECURSIVE TrimRightSpace(_)
TrimRightSpace(s) ==
    IF s # <<>> /\ IsSpace(s[Len(s)]) THEN TrimRightSpace(SubSeq(s, 1, Len(s) - 1)) ELSE s

\* strings.TrimSpace trimming the end of the string only.
TrimSpaceRight(s) == TrimRightSpace(s)

\* strings.TrimSpace
TrimSpace(s) == TrimRightSpace(TrimLeftSpace(s))

(***************************************************************************)
(* getPatternFromLine: the translation of one line into a regular          *)
(* expression text (filter.go, lines 121-190).                             *)
(***************************************************************************)
\* magicStar := "#$~"
magicStar == <<"#", "$", "~">>

\* The check for a negation prefix as an "if": one '!' is dropped.
StripOneNegation(line, negatePattern) ==
    IF line = <<>> THEN [panic |-> TRUE, line |-> line, negate |-> negatePattern]
    ELSE IF line[1] = "!" THEN [panic |-> FALSE, line |-> SliceFrom(line, 1), negate |-> ~negatePattern]
    ELSE [panic |-> FALSE, line |-> line, negate |-> negatePattern]

\* The check for a negation prefix: "for line[0] == '!'" flips negatePattern
\* and drops the character.  line[0] of an empty string is an index out of
\* range, a runtime panic.
RECURSIVE StripNegation(_, _)
StripNegation(line, negatePattern) ==
    IF line = <<>> THEN [panic |-> TRUE, line |-> line, negate |-> negatePattern]
    ELSE IF line[1] = "!" THEN StripNegation(SliceFrom(line, 1), ~negatePattern)
    ELSE [panic |-> FALSE, line |-> line, negate |-> negatePattern]

\* The escaped prefix dropped together with its backslash.
DropEscapedPair(expr) ==
    IF HasPrefix(expr, <<"\\", "#">>) \/ HasPrefix(expr, <<"\\", "!">>)
    THEN SliceFrom(expr, 2) ELSE expr

\* "Ignore a prefix of escaped '#' or '!'": the expression ^(\#|\!) matches a
\* text that starts with the character '#' or '!' (the backslashes escape
\* the characters in the expression, they are not looked for in the text).
DropEscapedPrefix(expr) ==
    IF expr # <<>> /\ expr[1] \in {"#", "!"} THEN SliceFrom(expr, 1) ELSE expr

\* The dots left as they are.
EscapeDotsNot(expr) == expr

\* "Escape dots."
EscapeDots(expr) == ReplaceAll(expr, <<".">>, <<"\\", ".">>)

\* HandleDoubleStar with '/**/' as "/.+/" only, without the single '/'.
HandleDoubleStarOneOrMore(expr) ==
    LET e0 == IF HasPrefix(expr, <<"/", "*", "*", "/">>) THEN SliceFrom(expr, 1) ELSE expr
        e1 == ReplaceAll(e0, <<"/", "*", "*", "/">>, <<"(", "/", ".", "+", "/", ")">>)
        e2 == ReplaceAll(e1, <<"*", "*", "/">>, <<"(", "|", ".">> \o magicStar \o <<"/", ")">>)
        e3 == ReplaceAll(e2, <<"/", "*", "*">>, <<"(", "|", "/", ".">> \o magicStar \o <<")">>)
    IN  e3

\* HandleDoubleStar with '**/' as ".*/" only, without the empty alternative.
HandleDoubleStarNoRoot(expr) ==
    LET e0 == IF HasPrefix(expr, <<"/", "*", "*", "/">>) THEN SliceFrom(expr, 1) ELSE expr
        e1 == ReplaceAll(e0, <<"/", "*", "*", "/">>, <<"(", "/", "|", "/", ".", "+", "/", ")">>)
        e2 == ReplaceAll(e1, <<"*", "*", "/">>, <<"(", ".">> \o magicStar \o <<"/", ")">>)
        e3 == ReplaceAll(e2, <<"/", "*", "*">>, <<"(", "|", "/", ".">> \o magicStar \o <<")">>)
    IN  e3

\* "Handle '/**/' patterns."
HandleDoubleStar(expr) ==
    LET e0 == IF HasPrefix(expr, <<"/", "*", "*", "/">>) THEN SliceFrom(expr, 1) ELSE expr
        e1 == ReplaceAll(e0, <<"/", "*", "*", "/">>, <<"(", "/", "|", "/", ".", "+", "/", ")">>)
        e2 == ReplaceAll(e1, <<"*", "*", "/">>, <<"(", "|", ".">> \o magicStar \o <<"/", ")">>)
        e3 == ReplaceAll(e2, <<"/", "*", "*">>, <<"(", "|", "/", ".">> \o magicStar \o <<")">>)
    IN  e3

\* HandleWildcards with '?' as any one character.
HandleWildcardsAnyChar(expr) ==
    LET e0 == ReplaceAll(expr, <<"\\", "*">>, <<"\\">> \o magicStar)
        e1 == ReplaceAll(e0, <<"*">>, <<"(", "[", "^", "/", "]", "*", ")">>)
        e2 == ReplaceAll(e1, <<"?">>, <<".">>)
        e3 == ReplaceAll(e2, magicStar, <<"*">>)
    IN  e3

\* HandleWildcards with '*' as any run of characters.
HandleWildcardsAnyRun(expr) ==
    LET e0 == ReplaceAll(expr, <<"\\", "*">>, <<"\\">> \o magicStar)
        e1 == ReplaceAll(e0, <<"*">>, <<"(", ".">> \o magicStar \o <<")">>)
        e2 == ReplaceAll(e1, <<"?">>, <<"[", "^", "/", "]">>)
        e3 == ReplaceAll(e2, magicStar, <<"*">>)
    IN  e3

\* "Handle wildcards."
HandleWildcards(expr) ==
    LET e0 == ReplaceAll(expr, <<"\\", "*">>, <<"\\">> \o magicStar)
        e1 == ReplaceAll(e0, <<"*">>, <<"(", "[", "^", "/", "]", "*", ")">>)
        e2 == ReplaceAll(e1, <<"?">>, <<"[", "^", "/", "]">>)
        e3 == ReplaceAll(e2, magicStar, <<"*">>)
    IN  e3

\* AddSuffix without the case of a line that ends in '/'.
AddSuffixOfFile(line, expr) == expr \o <<"(", "|", "/", ".", "*", ")", "$">>

\* "Build final regex.": the suffix is chosen by the line as it was after
\* the negation prefix was removed, not by the expression.
AddSuffix(line, expr) ==
    IF HasSuffix(line, <<"/">>)
    THEN expr \o <<"(", "|", ".", "*", ")", "$">>
    ELSE expr \o <<"(", "|", "/", ".", "*", ")", "$">>

\* AddPrefix with the default case allowed to start below any directory.
AddPrefixAnyDepth(line, expr) ==
    IF HasPrefix(line, <<"/">>)
    THEN <<"^", "(", "|", "/", ")">> \o SliceFrom(expr, 1)
    ELSE <<"^", "(", "|", ".", "*", "/", ")">> \o expr

\* "Only add directory prefix for patterns starting with /": the first case
\* drops the first character of the expression, whatever it is.
AddPrefix(line, expr) ==
    IF HasPrefix(line, <<"/">>)
    THEN <<"^", "(", "|", "/", ")">> \o SliceFrom(expr, 1)
    ELSE IF HasPrefix(line, <<"*", "*", "/">>)
    THEN <<"^", "(", "|", ".", "*", "/", ")">> \o expr
    ELSE <<"^">> \o expr

\* The text handed to regexp.Compile for a line that is neither a comment
\* nor empty and that is left non-empty by the removal of its '!' prefix.
Translate(line) ==
    CHOOSE out \in
        { AddPrefix(line, with) :
          with \in {AddSuffix(line, HandleWildcards(HandleDoubleStar(EscapeDots(DropEscapedPrefix(line)))))} } : TRUE

(***************************************************************************)
(* regexp.Compile and Regexp.MatchString (Go's RE2 syntax, Perl flags), for*)
(* the expression texts getPatternFromLine can build.  HandleWildcards     *)
(* leaves no '?' in the text, and the lines of this model hold neither     *)
(* '[' nor a backslash before 'Q', 'E', 'p', 'P', 'x' or a digit, so those *)
(* constructs of the syntax are not part of the model.  A '{' of these     *)
(* lines is never followed by a digit: it does not start a repetition      *)
(* {n,m} and regexp/syntax reads it as the literal character.              *)
(***************************************************************************)
Lower == {"a", "b", "c", "d", "e", "f", "g", "h", "i", "j", "k", "l", "m",
          "n", "o", "p", "q", "r", "s", "t", "u", "v", "w", "x", "y", "z"}
Upper == {"A", "B", "C", "D", "E", "F", "G", "H", "I", "J", "K", "L", "M",
          "N", "O", "P", "Q", "R", "S", "T", "U", "V", "W", "X", "Y", "Z"}
Digit == {"0", "1", "2", "3", "4", "5", "6", "7", "8", "9"}

\* isalnum of regexp/syntax
IsAlnum(c) == c \in Lower \cup Upper \cup Digit

\* \w
IsWordChar(c) == IsAlnum(c) \/ c = "_"

\* A node of the parsed expression.
Node(op, c, cs, subs) == [op |-> op, c |-> c, cs |-> cs, subs |-> subs]
Lit(c) == Node("lit", c, {}, <<>>)
ParseOK(node, next) == [ok |-> TRUE, node |-> node, next |-> next]
ParseFail == [ok |-> FALSE, node |-> Node("fail", "", {}, <<>>), next |-> 0]

\* An escape sequence, re[i] being the backslash.
ParseEscape(re, i) ==
    IF i + 1 > Len(re) THEN ParseFail                      \* trailing backslash
    ELSE LET e == re[i + 1] IN
         CASE ~IsAlnum(e) -> ParseOK(Lit(e), i + 2)         \* escaped punctuation
           [] e = "a" -> ParseOK(Lit(BEL), i + 2)
           [] e = "f" -> ParseOK(Lit("\f"), i + 2)
           [] e = "n" -> ParseOK(Lit("\n"), i + 2)
           [] e = "r" -> ParseOK(Lit(CR), i + 2)
           [] e = "t" -> ParseOK(Lit("\t"), i + 2)
           [] e = "v" -> ParseOK(Lit(VT), i + 2)
           [] e = "A" -> ParseOK(Node("bol", "", {}, <<>>), i + 2)
           [] e = "z" -> ParseOK(Node("eol", "", {}, <<>>), i + 2)
           [] e = "b" -> ParseOK(Node("wordb", "", {}, <<>>), i + 2)
           [] e = "B" -> ParseOK(Node("nwordb", "", {}, <<>>), i + 2)
           [] e = "d" -> ParseOK(Node("class", "", Digit, <<>>), i + 2)
           [] e = "D" -> ParseOK(Node("nclass", "", Digit, <<>>), i + 2)
           [] e = "s" -> ParseOK(Node("class", "", {"\t", "\n", "\f", CR, " "}, <<>>), i + 2)
           [] e = "S" -> ParseOK(Node("nclass", "", {"\t", "\n", "\f", CR, " "}, <<>>), i + 2)
           [] e = "w" -> ParseOK(Node("class", "", Lower \cup Upper \cup Digit \cup {"_"}, <<>>), i + 2)
           [] e = "W" -> ParseOK(Node("nclass", "", Lower \cup Upper \cup Digit \cup {"_"}, <<>>), i + 2)
           [] OTHER -> ParseFail                            \* invalid escape sequence

\* A bracket expression, re[i] being the '['; the first character of the
\* class is taken as it is, even a ']'.
ParseClass(re, i) ==
    LET negated == i + 1 <= Len(re) /\ re[i + 1] = "^"
        first == IF negated THEN i + 2 ELSE i + 1
        closing == {j \in (first + 1)..Len(re) : re[j] = "]"}
    IN  IF closing = {} THEN ParseFail                      \* missing closing ]
        ELSE LET last == CHOOSE j \in closing : \A k \in closing : j <= k
             IN  ParseOK(Node(IF negated THEN "nclass" ELSE "class", "",
                              {re[k] : k \in first..(last - 1)}, <<>>), last + 1)

RECURSIVE ParseAlternation(_, _)
RECURSIVE ParseConcat(_, _, _, _)
RECURSIVE ParseAtom(_, _)

\* concat ('|' concat)*
ParseAlternation(re, i) ==
    CHOOSE out \in
        { IF ~r.ok THEN r
          ELSE IF r.next <= Len(re) /\ re[r.next] = "|"
          THEN CHOOSE alt \in
                   { IF ~r2.ok THEN r2
                     ELSE ParseOK(Node("alt", "", {}, <<r.node, r2.node>>), r2.next) :
                     r2 \in {ParseAlternation(re, r.next + 1)} } : TRUE
          ELSE r :
          r \in {ParseConcat(re, i, <<>>, FALSE)} } : TRUE

\* A run of atoms, each with at most one repetition operator, up to a '|',
\* a ')' or the end.  A repetition operator with nothing before it, or right
\* after another one, is an error.
ParseConcat(re, i, acc, lastRepeat) ==
    IF i > Len(re) \/ re[i] \in {"|", ")"}
    THEN ParseOK(Node("cat", "", {}, acc), i)
    ELSE IF re[i] \in {"*", "+"}
    THEN IF acc = <<>> \/ lastRepeat THEN ParseFail
         ELSE ParseConcat(re, i + 1,
                          [acc EXCEPT ![Len(acc)] =
                              Node(IF re[i] = "*" THEN "star" ELSE "plus", "", {}, <<@>>)],
                          TRUE)
    ELSE CHOOSE out \in
             { IF ~a.ok THEN a ELSE ParseConcat(re, a.next, Append(acc, a.node), FALSE) :
               a \in {ParseAtom(re, i)} } : TRUE

ParseAtom(re, i) ==
    CASE re[i] = "(" ->
           CHOOSE out \in
               { IF r.ok /\ r.next <= Len(re) /\ re[r.next] = ")"
                 THEN ParseOK(r.node, r.next + 1)
                 ELSE ParseFail :                           \* missing closing )
                 r \in {ParseAlternation(re, i + 1)} } : TRUE
      [] re[i] = "[" -> ParseClass(re, i)
      [] re[i] = "." -> ParseOK(Node("any", "", {}, <<>>), i + 1)
      [] re[i] = "^" -> ParseOK(Node("bol", "", {}, <<>>), i + 1)
      [] re[i] = "$" -> ParseOK(Node("eol", "", {}, <<>>), i + 1)
      [] re[i] = "\\" -> ParseEscape(re, i)
      [] OTHER -> ParseOK(Lit(re[i]), i + 1)

\* The whole text must be consumed: a ')' left over is an unexpected ).
Parse(re) ==
    CHOOSE out \in
        { IF r.ok /\ r.next = Len(re) + 1 THEN r ELSE ParseFail :
          r \in {ParseAlternation(re, 1)} } : TRUE

\* A *regexp.Regexp: the expression text it was compiled from, or nil.
NilRegexp == [valid |-> FALSE, expr |-> <<>>]

\* regexp.Compile(expr), the error dropped: nil when the text does not parse.
RegexpCompile(expr) ==
    CHOOSE out \in
        { IF Parse(text).ok THEN [valid |-> TRUE, expr |-> text] ELSE NilRegexp :
          text \in {expr} } : TRUE

RECURSIVE MatchNode(_, _, _)
RECURSIVE MatchConcat(_, _, _, _)
RECURSIVE MatchStar(_, _, _)

\* The positions where a match of node n that starts at position i of s can
\* end (positions are 1..Len(s)+1, a position being before its character).
MatchNode(n, s, i) ==
    CASE n.op = "lit" -> IF i <= Len(s) /\ s[i] = n.c THEN {i + 1} ELSE {}
      [] n.op = "any" -> IF i <= Len(s) /\ s[i] # "\n" THEN {i + 1} ELSE {}
      [] n.op = "class" -> IF i <= Len(s) /\ s[i] \in n.cs THEN {i + 1} ELSE {}
      [] n.op = "nclass" -> IF i <= Len(s) /\ s[i] \notin n.cs THEN {i + 1} ELSE {}
      [] n.op = "bol" -> IF i = 1 THEN {i} ELSE {}
      [] n.op = "eol" -> IF i = Len(s) + 1 THEN {i} ELSE {}
      [] n.op \in {"wordb", "nwordb"} ->
           LET before == i > 1 /\ IsWordChar(s[i - 1])
               after == i <= Len(s) /\ IsWordChar(s[i])
           IN  IF (before # after) = (n.op = "wordb") THEN {i} ELSE {}
      [] n.op = "cat" -> MatchConcat(n.subs, 1, s, {i})
      [] n.op = "alt" -> MatchNode(n.subs[1], s, i) \cup MatchNode(n.subs[2], s, i)
      [] n.op = "star" -> MatchStar(n.subs[1], s, {i})
      [] n.op = "plus" ->
           CHOOSE out \in
               { MatchStar(n.subs[1], s, once) : once \in {MatchNode(n.subs[1], s, i)} } : TRUE
      [] OTHER -> {}

\* subs[k], subs[k+1], ... one after the other, started at any position of from.
MatchConcat(subs, k, s, from) ==
    IF k > Len(subs) \/ from = {} THEN from
    ELSE CHOOSE out \in
             { MatchConcat(subs, k + 1, s, to) :
               to \in {UNION {MatchNode(subs[k], s, j) : j \in from}} } : TRUE

\* Zero or more repetitions of n, started at any position of from.
MatchStar(n, s, from) ==
    CHOOSE out \in
        { IF more = from THEN from ELSE MatchStar(n, s, more) :
          more \in {from \cup UNION {MatchNode(n, s, j) : j \in from}} } : TRUE

\* Regexp.MatchString: the text holds a match of the expression somewhere.
MatchString(regexp, s) ==
    \E ast \in {Parse(regexp.expr).node}, text \in {s} :
        \E i \in 1..(Len(text) + 1) : MatchNode(ast, text, i) # {}

\* getPatternFromLine(line): the compiled expression and the negation flag,
\* or the runtime panic of the negation loop.
getPatternFromLine(line) ==
    IF HasPrefix(line, <<"#">>) \/ line = <<>>
    THEN [panic |-> FALSE, pattern |-> NilRegexp, negate |-> FALSE]
    ELSE CHOOSE out \in
             { IF stripped.panic
               THEN [panic |-> TRUE, pattern |-> NilRegexp, negate |-> FALSE]
               ELSE [panic |-> FALSE,
                     pattern |-> RegexpCompile(Translate(stripped.line)),
                     negate |-> stripped.negate] :
               stripped \in {StripNegation(line, FALSE)} } : TRUE

(***************************************************************************)
(* The Filter operations (filter.go, lines 13-95).  A Filter holds a slice *)
(* of *Pattern: the Pattern objects live in the heap and a Filter's        *)
(* patterns are references (indices) into it.                              *)
(***************************************************************************)
\* The nil *Pattern.
NilPattern == 0

\* MatchStep with the first matching pattern deciding for good.
MatchStepFirstWins(hp, ptr, path, acc) ==
    IF acc.matchingPattern = NilPattern /\ MatchString(hp[ptr].Pattern, path)
    THEN [matchesPath |-> ~hp[ptr].Negate, matchingPattern |-> ptr]
    ELSE acc

\* MatchStep without the "else if matchesPath" test: a negated pattern that
\* matches always takes the decision.
MatchStepNegationDecides(hp, ptr, path, acc) ==
    IF MatchString(hp[ptr].Pattern, path)
    THEN [matchesPath |-> ~hp[ptr].Negate, matchingPattern |-> ptr]
    ELSE acc

\* MatchStep recording a pattern only when it changes matchesPath.
MatchStepOnChange(hp, ptr, path, acc) ==
    IF MatchString(hp[ptr].Pattern, path) /\ acc.matchesPath = hp[ptr].Negate
    THEN [matchesPath |-> ~hp[ptr].Negate, matchingPattern |-> ptr]
    ELSE acc

\* MatchStep with the negated branch leaving matchingPattern as it was.
MatchStepKeepsPattern(hp, ptr, path, acc) ==
    IF MatchString(hp[ptr].Pattern, path)
    THEN IF ~hp[ptr].Negate
         THEN [matchesPath |-> TRUE, matchingPattern |-> ptr]
         ELSE IF acc.matchesPath
         THEN [matchesPath |-> FALSE, matchingPattern |-> acc.matchingPattern]
         ELSE acc
    ELSE acc

\* One iteration of the loop of MatchesPathHow: acc holds matchesPath and
\* matchingPattern, ptr refers to the pattern looked at.
MatchStep(hp, ptr, path, acc) ==
    IF MatchString(hp[ptr].Pattern, path)
    THEN IF ~hp[ptr].Negate
         THEN [matchesPath |-> TRUE, matchingPattern |-> ptr]
         ELSE IF acc.matchesPath
         THEN [matchesPath |-> FALSE, matchingPattern |-> ptr]
         ELSE acc
    ELSE acc

RECURSIVE MatchLoop(_, _, _, _, _)
MatchLoop(hp, patterns, k, path, acc) ==
    IF k > Len(patterns) THEN acc
    ELSE CHOOSE out \in
             { MatchLoop(hp, patterns, k + 1, path, next) :
               next \in {MatchStep(hp, patterns[k], path, acc)} } : TRUE

\* os.PathSeparator of the build, and filepath.ToSlash.
Separator == "/"
ToSlash(path) == [i \in 1..Len(path) |-> IF path[i] = Separator THEN "/" ELSE path[i]]

\* Filter.MatchesPathHow on the patterns of a Filter.
MatchesPathHow(hp, patterns, path) ==
    CHOOSE out \in
        { MatchLoop(hp, patterns, 1, slashed,
                    [matchesPath |-> FALSE, matchingPattern |-> NilPattern]) :
          slashed \in {ToSlash(path)} } : TRUE

\* Filter.MatchesPath
MatchesPath(hp, patterns, path) == MatchesPathHow(hp, patterns, path).matchesPath

\* LineNo as the number of patterns appended, this one included.
LineNoOrdinal(i, count) == count + 1

\* LineNo as the index of the range loop.
LineNoZeroBased(i, count) == i - 1

\* The LineNo given to the pattern of patterns[i], i counted from 1 here and
\* from 0 in the source.
LineNoOf(i, count) == (i - 1) + 1

\* The loop of CompileFilterPatterns from line i on: hp is the heap, ptrs the
\* patterns appended so far.  A panic of getPatternFromLine ends it.
RECURSIVE CompileLoop(_, _, _, _)
CompileLoop(patterns, i, hp, ptrs) ==
    IF i > Len(patterns) THEN [panic |-> FALSE, heap |-> hp, patterns |-> ptrs]
    ELSE CHOOSE out \in
             { CHOOSE next \in
                   { IF got.panic THEN [panic |-> TRUE, heap |-> hp, patterns |-> ptrs]
                     ELSE IF got.pattern.valid
                     THEN CompileLoop(patterns, i + 1,
                                      Append(hp, [Pattern |-> got.pattern, Negate |-> got.negate,
                                                  LineNo |-> LineNoOf(i, Len(ptrs)),
                                                  Line |-> pattern]),
                                      Append(ptrs, Len(hp) + 1))
                     ELSE CompileLoop(patterns, i + 1, hp, ptrs) :
                     got \in {getPatternFromLine(pattern)} } : TRUE :
               pattern \in {TrimSpace(TrimRightCR(patterns[i]))} } : TRUE

\* CompileFilterPatterns(patterns...)
CompileFilterPatterns(patterns, hp) == CompileLoop(patterns, 1, hp, <<>>)

(***************************************************************************)
(* The inputs of the model.                                                *)
(***************************************************************************)
\* The Filter objects of a run.
Filters == {"f"}

\* The lines a caller hands to CompileFilterPatterns in Spec:
\*   *   !.*   a   !a   (empty)   ' # c '   ' a <CR>'   !
LinePool ==
    { <<"*">>,
      <<"!", ".", "*">>,
      <<"a">>,
      <<"!", "a">>,
      <<>>,
      <<" ", "#", " ", "c", " ">>,
      <<" ", "a", " ", "\r">>,
      <<"!">> }

\* The paths a caller asks about in Spec:  a   b   .a   a/b
PathPool ==
    { <<"a">>,
      <<"b">>,
      <<".", "a">>,
      <<"a", "/", "b">> }

\* The calls of CompileFilterPatterns of SpecEx, one batch of lines each:
\*   `\#file.txt`
\*   `\!important.txt`,  `\#comment.txt`
\*   `\#a`
\*   `\!a`
\*   `*`,  `!\#a`
\*   `/**/X`
\*   `/*/*.go`,  `!/**/test/`
\*   `*`,  `!/**/test/`
\*   `X`,  `/**/X`
\*   `/**/a.go`
ExampleBatches ==
    { <<<<"\\", "#", "f", "i", "l", "e", ".", "t", "x", "t">>>>,
      <<<<"\\", "!", "i", "m", "p", "o", "r", "t", "a", "n", "t", ".", "t", "x", "t">>, <<"\\", "#", "c", "o", "m", "m", "e", "n", "t", ".", "t", "x", "t">>>>,
      <<<<"\\", "#", "a">>>>,
      <<<<"\\", "!", "a">>>>,
      <<<<"*">>, <<"!", "\\", "#", "a">>>>,
      <<<<"/", "*", "*", "/", "X">>>>,
      <<<<"/", "*", "/", "*", ".", "g", "o">>, <<"!", "/", "*", "*", "/", "t", "e", "s", "t", "/">>>>,
      <<<<"*">>, <<"!", "/", "*", "*", "/", "t", "e", "s", "t", "/">>>>,
      <<<<"X">>, <<"/", "*", "*", "/", "X">>>>,
      <<<<"/", "*", "*", "/", "a", ".", "g", "o">>>>,
      <<<<"*", ".", "g", "o">>, <<"*", ".", "{", "j", "s", ",", "t", "s", "}">>>> }

\* The paths a caller asks about in SpecEx:
\*   #file.txt
\*   file.txt
\*   !important.txt
\*   important.txt
\*   #comment.txt
\*   #a
\*   !a
\*   a
\*   X
\*   a/X
\*   a/b/X
\*   cmd/test/testutil.go
\*   test/b
\*   a.go
\*   cmd/main.go
\*   a.js
\*   a.ts
\*   a.{js,ts}
ExamplePaths ==
    { <<"#", "f", "i", "l", "e", ".", "t", "x", "t">>,
      <<"f", "i", "l", "e", ".", "t", "x", "t">>,
      <<"!", "i", "m", "p", "o", "r", "t", "a", "n", "t", ".", "t", "x", "t">>,
      <<"i", "m", "p", "o", "r", "t", "a", "n", "t", ".", "t", "x", "t">>,
      <<"#", "c", "o", "m", "m", "e", "n", "t", ".", "t", "x", "t">>,
      <<"#", "a">>,
      <<"!", "a">>,
      <<"a">>,
      <<"X">>,
      <<"a", "/", "X">>,
      <<"a", "/", "b", "/", "X">>,
      <<"c", "m", "d", "/", "t", "e", "s", "t", "/", "t", "e", "s", "t", "u", "t", "i", "l", ".", "g", "o">>,
      <<"t", "e", "s", "t", "/", "b">>,
      <<"a", ".", "g", "o">>,
      <<"c", "m", "d", "/", "m", "a", "i", "n", ".", "g", "o">>,
      <<"a", ".", "j", "s">>,
      <<"a", ".", "t", "s">>,
      <<"a", ".", "{", "j", "s", ",", "t", "s", "}">> }

RECURSIVE SeqsUpTo(_, _)
SeqsUpTo(S, n) ==
    IF n = 0 THEN {<<>>}
    ELSE LET shorter == SeqsUpTo(S, n - 1)
         IN  shorter \cup {Append(q, x) : q \in {r \in shorter : Len(r) = n - 1}, x \in S}

\* The characters of the exhaustively enumerated lines.
LineChars == {"a", "/", "*", ".", "!", "#", "\\", " "}
ShortLines == SeqsUpTo(LineChars, MaxLineLen)

\* k '!' characters.
Bangs(k) == [i \in 1..k |-> "!"]

\* SpecGlob: the characters of a glob of one path segment, and the globs.
GlobChars == {"a", "*", "?", "."}
Globs == SeqsUpTo(GlobChars, MaxGlobLen) \ {<<>>}

\* SpecGlob: the names of files and directories:  a   .a
Names == { <<"a">>, <<".", "a">> }

\* SpecGlob: the globs put between slashes:  *   a   *.a   a*
SegmentGlobs == { <<"*">>, <<"a">>, <<"*", ".", "a">>, <<"a", "*">> }

\* SpecGlob: the relative paths of up to n names, joined by '/'.
RECURSIVE PathsUpTo(_)
PathsUpTo(n) ==
    IF n = 1 THEN Names
    ELSE PathsUpTo(n - 1) \cup {dir \o <<"/">> \o name : dir \in PathsUpTo(n - 1), name \in Names}

GlobPaths == PathsUpTo(MaxDepth)

\* SpecGlob: the batches handed to CompileFilterPatterns.  One line each:
\*   G    **/G    N/    G1/G2    /G1/G2    N1/**/N2    **a/a    /**a/a    a?.a
\* and the default of the --filter flag,  *  !.*
GlobBatches ==
    {<<g>> : g \in Globs}
    \cup {<< <<"*", "*", "/">> \o g >> : g \in Globs}
    \cup {<< n \o <<"/">> >> : n \in Names}
    \cup {<< g1 \o <<"/">> \o g2 >> : g1 \in SegmentGlobs, g2 \in SegmentGlobs}
    \cup {<< <<"/">> \o g1 \o <<"/">> \o g2 >> : g1 \in SegmentGlobs, g2 \in SegmentGlobs}
    \cup {<< n1 \o <<"/", "*", "*", "/">> \o n2 >> : n1 \in Names, n2 \in Names}
    \cup { << <<"*", "*", "a", "/", "a">> >>, << <<"/", "*", "*", "a", "/", "a">> >> }
    \cup { << <<"a", "?", ".", "a">> >> }
    \cup { << <<"*">>, <<"!", ".", "*">> >> }

(***************************************************************************)
(* The state.                                                              *)
(***************************************************************************)
VARIABLES
    heap,      \* the Pattern objects allocated so far
    filters,   \* per Filter: whether it was made, and its patterns slice
    input,     \* per Filter: the lines CompileFilterPatterns was called with
    ret,       \* the last call and what it returned
    panicked,  \* the program ended in a runtime panic
    args,      \* SpecLine: the lines to hand to getPatternFromLine
    calls,     \* SpecLine: what getPatternFromLine returned for them, in order
    slices,    \* SpecMerge: per Filter, the backing array of its patterns slice
    log,       \* SpecMerge: the merge and NegateAll calls made, each with the
               \* heap and the filters it found
    walk       \* SpecWalk: the call of TraverseDirectory or processPaths made,
               \* with its arguments and what it returned

vars == <<heap, filters, input, ret, panicked, args, calls, slices, log, walk>>

\* No call of TraverseDirectory or processPaths was made.
NoWalk ==
    [op |-> "none", filterPatterns |-> <<>>, gitignorePaths |-> <<>>, given |-> <<>>,
     err |-> FALSE, paths |-> <<>>]

\* The nil slice: no backing array.
NilSlice == [arr |-> 0, cap |-> 0]

Returned(op, name, path, matches, how) ==
    [op |-> op, name |-> name, path |-> path, matches |-> matches, how |-> how]

Init ==
    /\ heap = <<>>
    /\ filters = [n \in Filters |-> [made |-> FALSE, patterns |-> <<>>]]
    /\ input = [n \in Filters |-> <<>>]
    /\ ret = Returned("none", "", <<>>, FALSE, NilPattern)
    /\ panicked = FALSE
    /\ args = <<>>
    /\ calls = <<>>
    /\ slices = [n \in Filters |-> NilSlice]
    /\ log = <<>>
    /\ walk = NoWalk

\* name := CompileFilterPatterns(lines...)
Compile(name, lines) ==
    /\ ~panicked
    /\ ~filters[name].made
    /\ input' = [input EXCEPT ![name] = lines]
    /\ \E r \in {CompileFilterPatterns(lines, heap)} :
           IF r.panic
           THEN /\ panicked' = TRUE
                /\ UNCHANGED <<heap, filters, ret>>
           ELSE /\ heap' = r.heap
                /\ filters' = [filters EXCEPT ![name] = [made |-> TRUE, patterns |-> r.patterns]]
                /\ ret' = Returned("CompileFilterPatterns", name, <<>>, FALSE, NilPattern)
                /\ UNCHANGED panicked
    /\ UNCHANGED <<args, calls, slices, log, walk>>

\* name.MatchesPathHow(path)
Query(name, path) ==
    /\ ~panicked
    /\ filters[name].made
    /\ \E r \in {MatchesPathHow(heap, filters[name].patterns, path)} :
           ret' = Returned("MatchesPathHow", name, path, r.matchesPath, r.matchingPattern)
    /\ UNCHANGED <<heap, filters, input, panicked, args, calls, slices, log, walk>>

Next ==
    \/ \E name \in Filters, lines \in SeqsUpTo(LinePool, MaxLines) : Compile(name, lines)
    \/ \E name \in Filters, path \in PathPool : Query(name, path)

Spec == Init /\ [][Next]_vars

(***************************************************************************)
(* SpecEx: the same program on the example patterns and paths of the tests *)
(* and of the documentation.                                               *)
(***************************************************************************)
NextEx ==
    \/ \E name \in Filters, lines \in ExampleBatches : Compile(name, lines)
    \/ \E name \in Filters, path \in ExamplePaths : Query(name, path)

SpecEx == Init /\ [][NextEx]_vars

(***************************************************************************)
(* SpecLine: getPatternFromLine as a function of its line.  A line X and   *)
(* the line of k '!' followed by X are drawn, and getPatternFromLine is    *)
(* called on the one and then on the other.                                *)
(***************************************************************************)
InitLine ==
    /\ heap = <<>>
    /\ filters = [n \in Filters |-> [made |-> FALSE, patterns |-> <<>>]]
    /\ input = [n \in Filters |-> <<>>]
    /\ ret = Returned("none", "", <<>>, FALSE, NilPattern)
    /\ panicked = FALSE
    /\ args \in {<<X, Bangs(k) \o X>> : X \in ShortLines, k \in 1..MaxBang}
    /\ calls = <<>>
    /\ slices = [n \in Filters |-> NilSlice]
    /\ log = <<>>
    /\ walk = NoWalk

\* getPatternFromLine(args[n]) for the next n.
CallGetPattern ==
    /\ ~panicked
    /\ Len(calls) < Len(args)
    /\ \E r \in {getPatternFromLine(args[Len(calls) + 1])} :
           IF r.panic
           THEN panicked' = TRUE /\ UNCHANGED calls
           ELSE calls' = Append(calls, r) /\ UNCHANGED panicked
    /\ UNCHANGED <<heap, filters, input, ret, args, slices, log, walk>>

NextLine == CallGetPattern

SpecLine == InitLine /\ [][NextLine]_vars

(***************************************************************************)
(* SpecGlob: one filter compiled from a batch of GlobBatches and asked     *)
(* about the paths of GlobPaths.                                           *)
(***************************************************************************)
NextGlob ==
    \/ \E name \in Filters, lines \in GlobBatches : Compile(name, lines)
    \/ \E name \in Filters, path \in GlobPaths : Query(name, path)

SpecGlob == Init /\ [][NextGlob]_vars

(***************************************************************************)
(* SpecMerge: three Filters f, g and h, each compiled from a batch of      *)
(* lines, on which MergeWithPrecedence, MergeWithoutPrecedence and         *)
(* NegateAll are called.                                                   *)
(*                                                                         *)
(* A patterns slice is a window on a backing array: filters[n].patterns is *)
(* what the window shows, slices[n] names the array and its capacity.      *)
(* Every slice of the program starts at index 0 of its array (the code     *)
(* never reslices), so two Filters on one array see the same elements at   *)
(* the same positions.  append writes behind the window when the capacity  *)
(* suffices, and those writes show in every longer window on that array;   *)
(* otherwise it copies to a new array, whose capacity is the one the Go    *)
(* runtime gives a slice of pointers.                                      *)
(***************************************************************************)
MaxCalls == 2

MergeFilters == {"f", "g", "h"}

\* The batches the three Filters are compiled from.
BatchesOfF == { << <<"*">>, <<"!", "a">>, <<"!", "!", "a">> >>,
                << <<"a">> >> }
BatchesOfG == { << <<"!", "a">> >>,
                << <<"b">>, <<"!", "*">> >> }
BatchesOfH == { << <<"b">> >> }

\* The capacity of a slice of pointers rounded up to what the allocator
\* hands out (its size classes up to 256 bytes: 8, 16, 24, 32, 48, 64, ...).
RoundUpCap(n) == IF n <= 4 THEN n ELSE n + (n % 2)

\* The capacity append gives the new array when a slice of capacity oldCap
\* has to hold needed elements (fewer than 256).
GrowCap(oldCap, needed) ==
    RoundUpCap(IF needed > oldCap + oldCap THEN needed ELSE oldCap + oldCap)

\* The capacity of a slice built from nil by n calls of append with one
\* element each, as in the loop of CompileFilterPatterns.
RECURSIVE CapAfterAppends(_)
CapAfterAppends(n) ==
    IF n = 0 THEN 0
    ELSE CHOOSE out \in
             { IF n <= c THEN c ELSE GrowCap(c, n) : c \in {CapAfterAppends(n - 1)} } : TRUE

\* The array of a slice just allocated: one no slice of sl uses.
NewArray(sl) ==
    1 + (CHOOSE k \in {sl[n].arr : n \in DOMAIN sl} :
             \A n \in DOMAIN sl : sl[n].arr <= k)

\* The slice CompileFilterPatterns leaves in its Filter.
CompiledSlice(patterns, id) ==
    IF Len(patterns) = 0 THEN NilSlice
    ELSE [arr |-> id, cap |-> CapAfterAppends(Len(patterns))]

InitMerge ==
    /\ \E bf \in BatchesOfF, bg \in BatchesOfG, bh \in BatchesOfH :
         \E rf \in {CompileFilterPatterns(bf, <<>>)} :
           \E rg \in {CompileFilterPatterns(bg, rf.heap)} :
             \E rh \in {CompileFilterPatterns(bh, rg.heap)} :
                /\ input = [f |-> bf, g |-> bg, h |-> bh]
                /\ heap = rh.heap
                /\ filters = [f |-> [made |-> TRUE, patterns |-> rf.patterns],
                              g |-> [made |-> TRUE, patterns |-> rg.patterns],
                              h |-> [made |-> TRUE, patterns |-> rh.patterns]]
                /\ slices = [f |-> CompiledSlice(rf.patterns, 1),
                             g |-> CompiledSlice(rg.patterns, 2),
                             h |-> CompiledSlice(rh.patterns, 3)]
    /\ ret = Returned("none", "", <<>>, FALSE, NilPattern)
    /\ panicked = FALSE
    /\ args = <<>>
    /\ calls = <<>>
    /\ log = <<>>
    /\ walk = NoWalk

\* What a call found: its name, its receiver, its argument, and the heap and
\* the filters before it.
Called(op, name, other) ==
    [op |-> op, name |-> name, other |-> other, heap |-> heap, filters |-> filters]

\* The value of append(s, t...).
AppendPatterns(s, t) == s \o t

\* The window q after t was written to its array from index from (counted
\* from 0) on.
Overwritten(q, from, t) ==
    [k \in 1..Len(q) |-> IF k > from /\ k <= from + Len(t) THEN t[k - from] ELSE q[k]]

\* name.patterns = append(a.patterns, b.patterns...), where name is a or b.
\* With nothing to add append returns the slice of a as it is; with room in
\* the array of a the elements of b are written behind the window of a, and
\* every other Filter whose window on that array is longer sees them.
Merge(op, name, a, b) ==
    /\ ~panicked
    /\ Len(log) < MaxCalls
    /\ log' = Append(log, Called(op, name, IF name = a THEN b ELSE a))
    /\ ret' = Returned(op, name, <<>>, FALSE, NilPattern)
    /\ \E s \in {filters[a].patterns}, t \in {filters[b].patterns} :
         IF Len(t) = 0
         THEN /\ filters' = [filters EXCEPT ![name].patterns = s]
              /\ slices' = [slices EXCEPT ![name] = slices[a]]
         ELSE IF Len(s) + Len(t) <= slices[a].cap
         THEN /\ filters' = [n \in MergeFilters |->
                                IF n = name
                                THEN [filters[n] EXCEPT !.patterns = AppendPatterns(s, t)]
                                ELSE IF slices[n].arr = slices[a].arr
                                THEN [filters[n] EXCEPT
                                         !.patterns = Overwritten(filters[n].patterns, Len(s), t)]
                                ELSE filters[n]]
              /\ slices' = [slices EXCEPT ![name] = slices[a]]
         ELSE /\ filters' = [filters EXCEPT ![name].patterns = AppendPatterns(s, t)]
              /\ slices' = [slices EXCEPT ![name] =
                               [arr |-> NewArray(slices),
                                cap |-> GrowCap(slices[a].cap, Len(s) + Len(t))]]
    /\ UNCHANGED <<heap, input, panicked, args, calls, walk>>

\* name.MergeWithPrecedence(other) with the operands of append exchanged.
MergeWithPrecedencePrepends(name, other) == Merge("MergeWithPrecedence", name, other, name)

\* name.MergeWithPrecedence(other)
MergeWithPrecedence(name, other) == Merge("MergeWithPrecedence", name, name, other)

\* name.MergeWithoutPrecedence(other)
MergeWithoutPrecedence(name, other) == Merge("MergeWithoutPrecedence", name, other, name)

\* strings.CutPrefix
CutPrefix(s, prefix) ==
    IF HasPrefix(s, prefix)
    THEN [after |-> SliceFrom(s, Len(prefix)), found |-> TRUE]
    ELSE [after |-> s, found |-> FALSE]

\* One iteration of the loop of NegateAll that sets Negate instead of
\* inverting it.
NegateStepSetsNegate(hp, ptr) ==
    [hp EXCEPT ![ptr].Negate = TRUE,
               ![ptr].Line = IF CutPrefix(hp[ptr].Line, <<"!">>).found
                             THEN CutPrefix(hp[ptr].Line, <<"!">>).after
                             ELSE <<"!">> \o hp[ptr].Line]

\* One iteration of the loop of NegateAll, on the Pattern ptr refers to,
\* that leaves the Line as it is.
NegateStepKeepsLine(hp, ptr) ==
    [hp EXCEPT ![ptr].Negate = ~hp[ptr].Negate]

\* One iteration of the loop of NegateAll, on the Pattern ptr refers to.
NegateStep(hp, ptr) ==
    [hp EXCEPT ![ptr].Negate = ~hp[ptr].Negate,
               ![ptr].Line = IF CutPrefix(hp[ptr].Line, <<"!">>).found
                             THEN CutPrefix(hp[ptr].Line, <<"!">>).after
                             ELSE <<"!">> \o hp[ptr].Line]

\* The loop of NegateAll from position i on.
RECURSIVE NegateLoop(_, _, _)
NegateLoop(hp, patterns, i) ==
    IF i > Len(patterns) THEN hp
    ELSE CHOOSE out \in
             { NegateLoop(next, patterns, i + 1) : next \in {NegateStep(hp, patterns[i])} } : TRUE

\* name.NegateAll()
NegateAll(name) ==
    /\ ~panicked
    /\ Len(log) < MaxCalls
    /\ log' = Append(log, Called("NegateAll", name, ""))
    /\ ret' = Returned("NegateAll", name, <<>>, FALSE, NilPattern)
    /\ heap' = NegateLoop(heap, filters[name].patterns, 1)
    /\ UNCHANGED <<filters, input, panicked, args, calls, slices, walk>>

NextMerge ==
    \/ \E name \in MergeFilters, other \in MergeFilters : MergeWithPrecedence(name, other)
    \/ \E name \in MergeFilters, other \in MergeFilters : MergeWithoutPrecedence(name, other)
    \/ \E name \in MergeFilters : NegateAll(name)

SpecMerge == InitMerge /\ [][NextMerge]_vars

(***************************************************************************)
(* SpecWalk: TraverseDirectory on a directory tree, with the patterns of   *)
(* the filter flag and a list of gitignore files, and processPaths on a    *)
(* list of entries.                                                        *)
(*                                                                         *)
(* The directory walked is /w/td (the testdir of gitignore.txtar, with     *)
(* shorter names):                                                         *)
(*     td/f1.go   td/r.md   td/sub/an/f3.go   td/sub/f2.go                 *)
(* The paths of the model are clean and hold no "." or ".." element, which *)
(* is what filepath.Abs, filepath.Rel and filepath.WalkDir hand out.       *)
(***************************************************************************)
MaxGitignores == 2
MaxEntries == 3

\* strings.Index for a one-character substr, counted from 1; 0 when absent.
Index(str, c) ==
    IF \E i \in 1..Len(str) : str[i] = c
    THEN CHOOSE i \in 1..Len(str) : str[i] = c /\ \A j \in 1..(i - 1) : str[j] # c
    ELSE 0

\* strings.Split(str, sep) for a one-character sep.
RECURSIVE Split(_, _)
Split(str, sep) ==
    IF Index(str, sep) = 0 THEN <<str>>
    ELSE <<SubSeq(str, 1, Index(str, sep) - 1)>>
             \o Split(SubSeq(str, Index(str, sep) + 1, Len(str)), sep)

\* strings.Count(str, c) for a one-character c.
Count(str, c) == Cardinality({i \in 1..Len(str) : str[i] = c})

\* strings.Join(elems, "/")
RECURSIVE JoinSlash(_)
JoinSlash(elems) ==
    IF Len(elems) = 0 THEN <<>>
    ELSE IF Len(elems) = 1 THEN elems[1]
    ELSE elems[1] \o <<"/">> \o JoinSlash(Tail(elems))

\* filepath.Clean on a path without ".." elements: empty and "." elements
\* and the trailing slash go, the empty path becomes ".".
Clean(path) ==
    LET rooted == Len(path) > 0 /\ path[1] = "/"
        elems == SelectSeq(Split(path, "/"), LAMBDA el : el # <<>> /\ el # <<".">>)
    IN  IF elems = <<>> THEN (IF rooted THEN <<"/">> ELSE <<".">>)
        ELSE (IF rooted THEN <<"/">> ELSE <<>>) \o JoinSlash(elems)

\* filepath.Dir: the path up to its last separator, cleaned.
Dir(path) ==
    IF Index(path, "/") = 0 THEN <<".">>
    ELSE Clean(SubSeq(path, 1,
                      CHOOSE i \in 1..Len(path) :
                          path[i] = "/" /\ \A j \in (i + 1)..Len(path) : path[j] # "/"))

\* filepath.Join of two non-empty elements.
Join(a, b) == Clean(a \o <<"/">> \o b)

\* filepath.Rel(base, target) for a target beneath the clean base.
Rel(base, target) == SliceFrom(target, Len(base) + 1)

PathInfo(path, relativePath, depth, isDir) ==
    [Path |-> path, RelativePath |-> relativePath, Depth |-> depth, IsDir |-> isDir]

\* filepath.Abs(dir): the directory TraverseDirectory is called on.
BasePath == <<"/", "w", "/", "t", "d">>

\* What filepath.WalkDir visits beneath BasePath, in its (lexical) order.
Visited ==
    << [path |-> <<"/", "w", "/", "t", "d">>, isDir |-> TRUE],
       [path |-> <<"/", "w", "/", "t", "d", "/", "f", "1", ".", "g", "o">>, isDir |-> FALSE],
       [path |-> <<"/", "w", "/", "t", "d", "/", "r", ".", "m", "d">>, isDir |-> FALSE],
       [path |-> <<"/", "w", "/", "t", "d", "/", "s", "u", "b">>, isDir |-> TRUE],
       [path |-> <<"/", "w", "/", "t", "d", "/", "s", "u", "b", "/", "a", "n">>, isDir |-> TRUE],
       [path |-> <<"/", "w", "/", "t", "d", "/", "s", "u", "b", "/", "a", "n", "/", "f", "3", ".", "g", "o">>, isDir |-> FALSE],
       [path |-> <<"/", "w", "/", "t", "d", "/", "s", "u", "b", "/", "f", "2", ".", "g", "o">>, isDir |-> FALSE] >>

\* The gitignore files on disk and their contents (gitignore.txtar):
\*   .a-gitignore:  **/*.go
\*   b-gitignore:   b-gitignore
\*                  !*.go
GitignoreFiles ==
    [ x \in {".a-gitignore", "b-gitignore"} |->
        IF x = ".a-gitignore" THEN <<"*", "*", "/", "*", ".", "g", "o", "\n">>
        ELSE <<"b", "-", "g", "i", "t", "i", "g", "n", "o", "r", "e", "\n", "!", "*", ".", "g", "o", "\n">> ]

\* The gitignore paths a call may name; the last is no file on disk.
GitignorePaths == {".a-gitignore", "b-gitignore", "no-gitignore"}

\* The values of the filter flag:  *  |  *.go  |  **/*.go  |  *,!*.md  |
\* *,!sub/an/  |  nothing
FilterFlags ==
    { << <<"*">> >>,
      << <<"*", ".", "g", "o">> >>,
      << <<"*", "*", "/", "*", ".", "g", "o">> >>,
      << <<"*">>, <<"!", "*", ".", "m", "d">> >>,
      << <<"*">>, <<"!", "s", "u", "b", "/", "a", "n", "/">> >>,
      << >> }

\* CompileFilterPatternFile: the patterns of the lines of the file, or an
\* error when it cannot be read.
CompileFilterPatternFile(path, hp) ==
    IF path \notin DOMAIN GitignoreFiles
    THEN [err |-> TRUE, panic |-> FALSE, heap |-> hp, patterns |-> <<>>]
    ELSE CHOOSE out \in
             { [err |-> FALSE, panic |-> r.panic, heap |-> r.heap, patterns |-> r.patterns] :
               r \in {CompileFilterPatterns(Split(GitignoreFiles[path], "\n"), hp)} } : TRUE

\* gi merged with the patterns of a gitignore file placed before its own.
GitignoreMergedWithoutPrecedence(gi, tempFilter) == AppendPatterns(tempFilter, gi)

\* gi.MergeWithPrecedence(tempFilter) on the local Filter gi.
GitignoreMerged(gi, tempFilter) == AppendPatterns(gi, tempFilter)

\* The loop over gitignorePaths from position i on: gi holds the patterns
\* of the files before it.
RECURSIVE CompileGitignores(_, _, _, _)
CompileGitignores(gitignorePaths, i, hp, gi) ==
    IF i > Len(gitignorePaths)
    THEN [err |-> FALSE, panic |-> FALSE, heap |-> hp, patterns |-> gi]
    ELSE CHOOSE out \in
             { IF r.err \/ r.panic THEN r
               ELSE CompileGitignores(gitignorePaths, i + 1, r.heap,
                                      GitignoreMerged(gi, r.patterns)) :
               r \in {CompileFilterPatternFile(gitignorePaths[i], hp)} } : TRUE

\* The function handed to filepath.WalkDir: the entries it appends for one
\* visited path.
WalkFn(d, hp, f, gi) ==
    IF d.isDir \/ d.path = BasePath THEN <<>>
    ELSE IF \/ MatchesPath(hp, gi, ToSlash(Rel(BasePath, d.path)))
            \/ ~MatchesPath(hp, f, ToSlash(Rel(BasePath, d.path)))
    THEN <<>>
    ELSE CHOOSE out \in
             { <<PathInfo(d.path, relPath, Count(relPath, "/") + 1, FALSE)>> :
               relPath \in {ToSlash(Rel(Dir(BasePath), d.path))} } : TRUE

\* filepath.WalkDir from the k-th visited path on.
RECURSIVE WalkDir(_, _, _, _)
WalkDir(k, hp, f, gi) ==
    IF k > Len(Visited) THEN <<>>
    ELSE WalkFn(Visited[k], hp, f, gi) \o WalkDir(k + 1, hp, f, gi)

\* The entry processPaths appends for a directory, with Depth counted from 0.
DirInfoDepthFromZero(currentAbs, currentRel, i) == PathInfo(currentAbs, currentRel, i, TRUE)

\* The entry processPaths appends for the directory of the components 0..i.
DirInfo(currentAbs, currentRel, i) == PathInfo(currentAbs, currentRel, i + 1, TRUE)

\* The loop over the components of one entry, from component i (counted
\* from 0) on; st holds currentRel, currentAbs, seen and result.
RECURSIVE ProcessComponents(_, _, _, _)
ProcessComponents(p, components, i, st) ==
    IF i >= Len(components) THEN st
    ELSE IF i = Len(components) - 1 /\ ~p.IsDir
    THEN ProcessComponents(p, components, i + 1, st)
    ELSE CHOOSE out \in
             { ProcessComponents(p, components, i + 1,
                   IF abs \in st.seen
                   THEN [st EXCEPT !.currentRel = rel, !.currentAbs = abs]
                   ELSE [currentRel |-> rel, currentAbs |-> abs,
                         seen |-> st.seen \cup {abs},
                         result |-> Append(st.result, DirInfo(abs, rel, i))]) :
               rel \in {IF st.currentRel = <<>> THEN components[i + 1]
                        ELSE Join(st.currentRel, components[i + 1])},
               abs \in {Join(st.currentAbs, components[i + 1])} } : TRUE

\* The loop over the entries from the k-th on.
RECURSIVE ProcessEntries(_, _, _, _)
ProcessEntries(paths, k, seen, result) ==
    IF k > Len(paths) THEN result
    ELSE CHOOSE out \in
             { ProcessEntries(paths, k + 1, st.seen, st.result) :
               st \in { ProcessComponents(
                            paths[k], Split(paths[k].RelativePath, "/"), 0,
                            [currentRel |-> <<>>,
                             currentAbs |-> Dir(SubSeq(paths[k].Path, 1,
                                 Len(paths[k].Path) - Len(paths[k].RelativePath))),
                             seen |-> seen, result |-> result]) } } : TRUE

\* A slice of PathInfo: the nil slice, and the slice of the elements es.
NilPaths == [isNil |-> TRUE, elems |-> <<>>]
PathsOf(es) == [isNil |-> FALSE, elems |-> es]

\* processPaths(&paths): the error, or the new value of paths.
processPaths(paths) ==
    IF paths.isNil THEN [err |-> TRUE, paths |-> paths]
    ELSE [err |-> FALSE,
          paths |-> PathsOf(ProcessEntries(paths.elems, 1,
                                           {paths.elems[k].Path : k \in 1..Len(paths.elems)},
                                           paths.elems))]

\* TraverseDirectory(dir, filterPatterns, gitignorePaths) with dir the
\* directory BasePath.
TraverseDirectory(filterPatterns, gitignorePaths) ==
    CHOOSE out \in
        { IF f.panic THEN [panic |-> TRUE, err |-> FALSE, paths |-> <<>>]
          ELSE CHOOSE res \in
                   { IF gi.panic THEN [panic |-> TRUE, err |-> FALSE, paths |-> <<>>]
                     ELSE IF gi.err THEN [panic |-> FALSE, err |-> TRUE, paths |-> <<>>]
                     ELSE [panic |-> FALSE, err |-> FALSE,
                           paths |-> processPaths(PathsOf(
                                         WalkDir(1, gi.heap, f.patterns, gi.patterns))).paths.elems] :
                     gi \in {CompileGitignores(gitignorePaths, 1, f.heap, <<>>)} } : TRUE :
          f \in {CompileFilterPatterns(filterPatterns, <<>>)} } : TRUE

\* paths, err := TraverseDirectory(dir, filterPatterns, gitignorePaths)
Traverse(filterPatterns, gitignorePaths) ==
    /\ ~panicked
    /\ walk.op = "none"
    /\ \E r \in {TraverseDirectory(filterPatterns, gitignorePaths)} :
          IF r.panic
          THEN panicked' = TRUE /\ UNCHANGED walk
          ELSE /\ walk' = [op |-> "TraverseDirectory", filterPatterns |-> filterPatterns,
                           gitignorePaths |-> gitignorePaths, given |-> <<>>,
                           err |-> r.err, paths |-> r.paths]
               /\ UNCHANGED panicked
    /\ UNCHANGED <<heap, filters, input, ret, args, calls, slices, log>>

\* The entries processPaths is called with: files and directories of the
\* tree, as TraverseDirectory and the tests of processPaths describe them.
EntryPool ==
    { PathInfo(<<"/", "w", "/", "t", "d", "/", "f", "1", ".", "g", "o">>, <<"t", "d", "/", "f", "1", ".", "g", "o">>, 2, FALSE),
      PathInfo(<<"/", "w", "/", "t", "d", "/", "s", "u", "b", "/", "f", "2", ".", "g", "o">>, <<"t", "d", "/", "s", "u", "b", "/", "f", "2", ".", "g", "o">>, 3, FALSE),
      PathInfo(<<"/", "w", "/", "t", "d", "/", "s", "u", "b", "/", "a", "n", "/", "f", "3", ".", "g", "o">>, <<"t", "d", "/", "s", "u", "b", "/", "a", "n", "/", "f", "3", ".", "g", "o">>, 4, FALSE),
      PathInfo(<<"/", "w", "/", "t", "d", "/", "s", "u", "b">>, <<"t", "d", "/", "s", "u", "b">>, 2, TRUE),
      PathInfo(<<"/", "w", "/", "t", "d", "/", "s", "u", "b", "/", "a", "n">>, <<"t", "d", "/", "s", "u", "b", "/", "a", "n">>, 3, TRUE) }

\* The lists of up to n entries of pairwise distinct paths.
RECURSIVE DistinctEntries(_)
DistinctEntries(n) ==
    IF n = 0 THEN {<<>>}
    ELSE DistinctEntries(n - 1)
         \cup UNION { { Append(es, x) :
                           x \in {y \in EntryPool : \A k \in 1..Len(es) : es[k].Path # y.Path} } :
                       es \in {r \in DistinctEntries(n - 1) : Len(r) = n - 1} }

\* err := processPaths(&given)
ProcessPaths(given) ==
    /\ ~panicked
    /\ walk.op = "none"
    /\ \E r \in {processPaths(given)} :
          walk' = [op |-> "processPaths", filterPatterns |-> <<>>, gitignorePaths |-> <<>>,
                   given |-> given.elems, err |-> r.err, paths |-> r.paths.elems]
    /\ UNCHANGED <<heap, filters, input, ret, panicked, args, calls, slices, log>>

NextWalk ==
    \/ \E filterPatterns \in FilterFlags,
          gitignorePaths \in SeqsUpTo(GitignorePaths, MaxGitignores) :
              Traverse(filterPatterns, gitignorePaths)
    \/ \E given \in {PathsOf(es) : es \in DistinctEntries(MaxEntries)} \cup {NilPaths} :
          ProcessPaths(given)

SpecWalk == Init /\ [][NextWalk]_vars

(***************************************************************************)
(* The claims.                                                             *)
(***************************************************************************)
\* The last call was MatchesPathHow.
Queried == ret.op = "MatchesPathHow"

\* The patterns of the Filter the last MatchesPathHow call was made on.
QueriedPatterns == filters[ret.name].patterns

\* The matcher of the pattern ptr refers to matches the path.
Matches(ptr, path) == MatchString(heap[ptr].Pattern, ToSlash(path))

\* The positions in QueriedPatterns of the patterns whose matcher matches
\* the path of the last call.
MatchingPositions == {k \in 1..Len(QueriedPatterns) : Matches(QueriedPatterns[k], ret.path)}

Last(q) == q[Len(q)]
Front(q) == SubSeq(q, 1, Len(q) - 1)
Greatest(S) == CHOOSE k \in S : \A m \in S : m <= k

(* C1: last-match-wins.  Whenever MatchesPathHow was asked about a path on *)
(* a list P followed by a pattern X whose matcher matches the path, the    *)
(* verdict is true when X is not negated and false when X is negated,      *)
(* whatever P alone gives for the path.                                    *)
C1_LastMatchWins ==
    (Queried /\ QueriedPatterns # <<>>) =>
        (Matches(Last(QueriedPatterns), ret.path) =>
            ret.matches = ~heap[Last(QueriedPatterns)].Negate)

\* A negated last pattern overrides the inclusion the patterns before it give.
C1_Witness ==
    /\ Queried
    /\ Len(QueriedPatterns) >= 2
    /\ Matches(Last(QueriedPatterns), ret.path)
    /\ heap[Last(QueriedPatterns)].Negate
    /\ MatchesPath(heap, Front(QueriedPatterns), ret.path)
    /\ ~ret.matches

(* C2: a negated pattern whose matcher matches the path while the patterns *)
(* before it leave the path not included has no effect: the verdict stays  *)
(* false and the deciding pattern stays the one the patterns before it     *)
(* give (or none).                                                         *)
C2_NegationWithoutInclusionIsNoOp ==
    (Queried /\ QueriedPatterns # <<>>) =>
        \A before \in {MatchesPathHow(heap, Front(QueriedPatterns), ret.path)} :
            ( /\ heap[Last(QueriedPatterns)].Negate
              /\ Matches(Last(QueriedPatterns), ret.path)
              /\ ~before.matchesPath )
            => (ret.matches = FALSE /\ ret.how = before.matchingPattern)

\* The ineffective negation comes after a negation that did decide.
C2_Witness ==
    /\ Queried
    /\ Len(QueriedPatterns) = 3
    /\ heap[Last(QueriedPatterns)].Negate
    /\ Matches(Last(QueriedPatterns), ret.path)
    /\ ~MatchesPath(heap, Front(QueriedPatterns), ret.path)
    /\ ret.how # NilPattern
    /\ ret.how = QueriedPatterns[2]

(* C3 as stated: the deciding pattern returned by MatchesPathHow is the    *)
(* last pattern whose matcher matches the path, and none only when no      *)
(* pattern's matcher matches the path.                                     *)
C3_DecidingIsLastMatching ==
    Queried =>
        ret.how = (IF MatchingPositions = {} THEN NilPattern
                   ELSE QueriedPatterns[Greatest(MatchingPositions)])

\* The positions of the matching patterns that take the decision: those not
\* negated, and the negated ones that directly follow, among the matching
\* patterns, one that is not negated.
DecidingPositions ==
    {k \in MatchingPositions :
        \/ ~heap[QueriedPatterns[k]].Negate
        \/ \E j \in MatchingPositions :
              /\ j < k
              /\ ~heap[QueriedPatterns[j]].Negate
              /\ \A m \in MatchingPositions : ~(j < m /\ m < k)}

(* C3 as amended: the deciding pattern returned by MatchesPathHow is the   *)
(* last pattern whose matcher matches the path and that is either not      *)
(* negated or the first matching negated pattern after a matching pattern  *)
(* that is not negated; it is none exactly when no pattern that is not     *)
(* negated matches the path.                                               *)
C3_DecidingIsLastEffective ==
    Queried =>
        /\ ret.how = (IF DecidingPositions = {} THEN NilPattern
                      ELSE QueriedPatterns[Greatest(DecidingPositions)])
        /\ (ret.how = NilPattern) <=>
               (\A k \in MatchingPositions : heap[QueriedPatterns[k]].Negate)

\* A pattern decides although a later pattern matches the path as well.
C3_Witness ==
    /\ Queried
    /\ ret.how # NilPattern
    /\ Greatest(MatchingPositions) > Greatest(DecidingPositions)

(* C4: each leading '!' of a line toggles negation.  For a line X that     *)
(* getPatternFromLine compiles to a pattern and the line of k '!' followed *)
(* by X, getPatternFromLine gives the same matcher for both lines, and the *)
(* Negate of the second is the Negate of the first flipped exactly when k  *)
(* is odd.                                                                 *)
C4_BangsToggleNegation ==
    (Len(calls) >= 1 /\ calls[1].pattern.valid) =>
        /\ ~panicked
        /\ (Len(calls) = 2) =>
              /\ calls[2].pattern = calls[1].pattern
              /\ calls[2].negate =
                    (calls[1].negate # ((Len(args[2]) - Len(args[1])) % 2 = 1))

\* "!!X" compiled to the pattern of X, not negated.
C4_Witness ==
    /\ Len(calls) = 2
    /\ calls[1].pattern.valid
    /\ Len(args[2]) - Len(args[1]) = 2
    /\ ~calls[1].negate
    /\ ~calls[2].negate
    /\ MatchString(calls[2].pattern, args[1])

\* A line that starts with an escaped '#' or '!'.
EscapedLine(line) == HasPrefix(line, <<"\\", "#">>) \/ HasPrefix(line, <<"\\", "!">>)

\* The filters made from lines that all start with an escaped '#' or '!'
\* followed by a name without wildcards and slashes.
EscapedOnly(name) ==
    /\ filters[name].made
    /\ input[name] # <<>>
    /\ \A i \in 1..Len(input[name]) :
          /\ EscapedLine(input[name][i])
          /\ \A j \in 3..Len(input[name][i]) :
                IsAlnum(input[name][i][j]) \/ input[name][i][j] = "."

(* C5: a line that starts with `\#` or `\!` is compiled to a pattern that  *)
(* is not negated (the line is neither skipped as a comment nor taken as a *)
(* negation), and a filter made of such lines includes a path without      *)
(* slashes exactly when the path is one of the lines without its           *)
(* backslash: `\#file.txt` matches `#file.txt` and not `file.txt`,         *)
(* `\!important.txt` matches `!important.txt` and not `important.txt`.     *)
C5_EscapedPrefixIsLiteral ==
    /\ \A name \in Filters : filters[name].made =>
          \A i \in 1..Len(input[name]) : EscapedLine(input[name][i]) =>
              \E k \in 1..Len(filters[name].patterns) :
                  /\ heap[filters[name].patterns[k]].LineNo = i
                  /\ heap[filters[name].patterns[k]].Line = input[name][i]
                  /\ ~heap[filters[name].patterns[k]].Negate
    /\ (Queried /\ EscapedOnly(ret.name) /\ \A i \in 1..Len(ret.path) : ret.path[i] # "/") =>
          (ret.matches <=>
              \E i \in 1..Len(input[ret.name]) : ret.path = Tail(input[ret.name][i]))

\* `\#file.txt` was asked about `#file.txt` and included it.
C5_Witness ==
    /\ Queried
    /\ input[ret.name] = << <<"\\", "#", "f", "i", "l", "e", ".", "t", "x", "t">> >>
    /\ ret.path = <<"#", "f", "i", "l", "e", ".", "t", "x", "t">>
    /\ ret.matches
    /\ ~heap[ret.how].Negate

\* A line that is empty once carriage returns and surrounding whitespace are
\* trimmed, or whose first character that is not whitespace is '#'.
Skippable(line) ==
    \A i \in 1..Len(line) :
        IsSpace(line[i]) \/ \E j \in 1..i : line[j] = "#" /\ \A m \in 1..(j - 1) : IsSpace(line[m])

\* seq without its elements that are skippable lines.
WithoutSkippable(seq) == SelectSeq(seq, LAMBDA line : ~Skippable(line))

(* C6: CompileFilterPatterns produces no pattern for a line that is empty  *)
(* after trimming carriage returns and surrounding whitespace, or whose    *)
(* first character that is not whitespace is '#', and such lines change no *)
(* verdict: the Filter gives every path the verdict of the Filter compiled *)
(* from the input without these lines.                                     *)
C6_SkippedLinesHaveNoEffect ==
    \A name \in Filters : filters[name].made =>
        /\ \A k \in 1..Len(filters[name].patterns) :
              ~Skippable(input[name][heap[filters[name].patterns[k]].LineNo])
        /\ \A without \in {CompileFilterPatterns(WithoutSkippable(input[name]), <<>>)} :
              /\ ~without.panic
              /\ Len(without.patterns) = Len(filters[name].patterns)
              /\ \A path \in PathPool :
                    MatchesPathHow(heap, filters[name].patterns, path).matchesPath
                        = MatchesPathHow(without.heap, without.patterns, path).matchesPath

\* A blank line and a comment line around a line that includes the path.
C6_Witness ==
    /\ Queried
    /\ Len(input[ret.name]) = 3
    /\ input[ret.name][1] = <<>>
    /\ ~Skippable(input[ret.name][2])
    /\ HasPrefix(TrimSpace(input[ret.name][3]), <<"#">>)
    /\ Len(QueriedPatterns) = 1
    /\ ret.matches

(* C7: every pattern produced by CompileFilterPatterns has LineNo equal to *)
(* the 1-based position of its line in the input batch, skipped lines      *)
(* counted: the pattern's Line is the trimmed input line at that position, *)
(* and the patterns are in the order of their positions.                   *)
C7_LineNoIsInputPosition ==
    \A name \in Filters : filters[name].made =>
        \A k \in 1..Len(filters[name].patterns) :
            /\ heap[filters[name].patterns[k]].LineNo \in 1..Len(input[name])
            /\ heap[filters[name].patterns[k]].Line
                  = TrimSpace(TrimRightCR(input[name][heap[filters[name].patterns[k]].LineNo]))
            /\ \A j \in 1..(k - 1) :
                  heap[filters[name].patterns[j]].LineNo < heap[filters[name].patterns[k]].LineNo

\* The only pattern comes from the third line, after two skipped lines.
C7_Witness ==
    \E name \in Filters :
        /\ filters[name].made
        /\ Len(filters[name].patterns) = 1
        /\ Skippable(input[name][1])
        /\ Skippable(input[name][2])
        /\ heap[filters[name].patterns[1]].LineNo = 3

(* C8 as stated: a pattern's LineNo is its 1-based ordinal position among  *)
(* the lines that are not skipped: the k-th pattern of a freshly compiled  *)
(* set has LineNo k.                                                       *)
C8_LineNoIsOrdinal ==
    \A name \in Filters : filters[name].made =>
        \A k \in 1..Len(filters[name].patterns) :
            heap[filters[name].patterns[k]].LineNo = k

\* The line gives no pattern: it is skipped or its expression does not compile.
GivesNoPattern(line) ==
    \E got \in {getPatternFromLine(TrimSpace(TrimRightCR(line)))} :
        ~got.panic /\ ~got.pattern.valid

(* C8 as amended: the k-th pattern of a freshly compiled set has LineNo k  *)
(* plus the number of input lines before its own that gave no pattern.     *)
C8_LineNoIsOrdinalPlusSkipped ==
    \A name \in Filters : filters[name].made =>
        \A k \in 1..Len(filters[name].patterns) :
            heap[filters[name].patterns[k]].LineNo =
                k + Cardinality({j \in 1..(heap[filters[name].patterns[k]].LineNo - 1) :
                                    GivesNoPattern(input[name][j])})

\* The second pattern has LineNo 3: a skipped line lies before it.
C8_Witness ==
    \E name \in Filters :
        /\ filters[name].made
        /\ Len(filters[name].patterns) = 2
        /\ heap[filters[name].patterns[2]].LineNo = 3
        /\ Cardinality({j \in 1..2 : GivesNoPattern(input[name][j])}) = 1

(* C9 as stated: pattern compilation never rejects a line, and              *)
(* CompileFilterPatterns returns a Filter without a runtime failure for    *)
(* every list of input lines, lines that consist only of '!' included.     *)
C9_CompilationNeverFails == ~panicked

(* C10 as stated: a pattern beginning with "/**/" matches its remainder at *)
(* the root and beneath any number of directories: "/**/X" matches "X",    *)
(* "a/X" and "a/b/X".                                                      *)
C10_LeadingDoubleStarMatchesAnyDepth ==
    ( /\ Queried
      /\ input[ret.name] = << <<"/", "*", "*", "/", "X">> >>
      /\ ret.path \in {<<"X">>, <<"a", "/", "X">>, <<"a", "/", "b", "/", "X">>} )
    => ret.matches

\* The last call was MatchesPathHow on a filter compiled from one line.
QueriedOneLine == Queried /\ Len(input[ret.name]) = 1

\* That line.
TheLine == input[ret.name][1]

\* The position of the first '/' of a path that has one.
FirstSlash(path) == CHOOSE i \in 1..Len(path) : path[i] = "/" /\ \A j \in 1..(i - 1) : path[j] # "/"

\* The segments of a path: the texts between its '/' characters.
RECURSIVE Segments(_)
Segments(path) ==
    IF \A i \in 1..Len(path) : path[i] # "/" THEN <<path>>
    ELSE <<SubSeq(path, 1, FirstSlash(path) - 1)>>
             \o Segments(SubSeq(path, FirstSlash(path) + 1, Len(path)))

\* The glob g of one segment matches the whole of the text c: '*' stands for
\* any run of characters other than '/', '?' for one character other than
\* '/', any other character for itself.
RECURSIVE GlobMatch(_, _)
GlobMatch(g, c) ==
    IF g = <<>> THEN c = <<>>
    ELSE IF g[1] = "*"
    THEN GlobMatch(Tail(g), c) \/ (c # <<>> /\ c[1] # "/" /\ GlobMatch(g, Tail(c)))
    ELSE IF g[1] = "?"
    THEN c # <<>> /\ c[1] # "/" /\ GlobMatch(Tail(g), Tail(c))
    ELSE c # <<>> /\ c[1] = g[1] /\ GlobMatch(Tail(g), Tail(c))

\* The line is n1/**/n2 for names n1 and n2.
InteriorDoubleStar(line, n1, n2) == line = n1 \o <<"/", "*", "*", "/">> \o n2

(* C11 as stated: an interior "/**/" matches one or more intermediate path *)
(* segments and never zero: "a/**/b" matches "a/x/b" and does not match    *)
(* "a/b".                                                                  *)
C11_InteriorDoubleStarNeverZero ==
    QueriedOneLine =>
        \A n1 \in Names, n2 \in Names : InteriorDoubleStar(TheLine, n1, n2) =>
            /\ (ret.path = n1 \o <<"/">> \o n2) => ~ret.matches
            /\ (\E x \in Names : ret.path = n1 \o <<"/">> \o x \o <<"/">> \o n2) => ret.matches

(* C11 as amended: an interior "/**/" matches zero or more intermediate    *)
(* path segments: "n1/**/n2" matches exactly the paths whose first segment *)
(* is n1 and that have n2 as a later segment, "n1/n2" included.            *)
C11_InteriorDoubleStarZeroOrMore ==
    QueriedOneLine =>
        \A n1 \in Names, n2 \in Names : InteriorDoubleStar(TheLine, n1, n2) =>
            (ret.matches <=>
                /\ Segments(ret.path)[1] = n1
                /\ \E k \in 2..Len(Segments(ret.path)) : Segments(ret.path)[k] = n2)

\* "n1/**/n2" was asked about "n1/n2" and matched it.
C11_Witness ==
    /\ QueriedOneLine
    /\ \E n1 \in Names, n2 \in Names :
          /\ InteriorDoubleStar(TheLine, n1, n2)
          /\ ret.path = n1 \o <<"/">> \o n2
    /\ ret.matches

(* C12: a pattern "**/X", X a glob without '/', matches at any depth, the  *)
(* root included: it matches exactly the paths that have a segment X       *)
(* matches.                                                                *)
C12_LeadingDoubleStarAnyDepth ==
    QueriedOneLine =>
        \A g \in Globs : (TheLine = <<"*", "*", "/">> \o g) =>
            (ret.matches <=>
                \E k \in 1..Len(Segments(ret.path)) : GlobMatch(g, Segments(ret.path)[k]))

\* "**/X" matched a path by its third segment alone.
C12_Witness ==
    /\ QueriedOneLine
    /\ HasPrefix(TheLine, <<"*", "*", "/">>)
    /\ Len(Segments(ret.path)) = 3
    /\ GlobMatch(SliceFrom(TheLine, 3), Segments(ret.path)[3])
    /\ ~GlobMatch(SliceFrom(TheLine, 3), Segments(ret.path)[1])
    /\ ~GlobMatch(SliceFrom(TheLine, 3), Segments(ret.path)[2])
    /\ ret.matches

(* C13: a pattern without '/' (so with no leading '/' and no leading       *)
(* "**/") is anchored at the start of the path: it matches a path exactly  *)
(* when it matches the path's first segment, and never because of a deeper *)
(* segment ("*.go" matches "main.go" and not "src/main.go").               *)
C13_BarePatternAnchoredAtRoot ==
    QueriedOneLine =>
        (TheLine \in Globs =>
            (ret.matches <=> GlobMatch(TheLine, Segments(ret.path)[1])))

\* The glob matches the second segment, not the first, and the path is not matched.
C13_Witness ==
    /\ QueriedOneLine
    /\ TheLine \in Globs
    /\ Len(Segments(ret.path)) >= 2
    /\ GlobMatch(TheLine, Segments(ret.path)[2])
    /\ ~GlobMatch(TheLine, Segments(ret.path)[1])
    /\ ~ret.matches

\* The line holds a '/' and starts neither with '/' nor with "**/".
AnchoredBySlash(line) ==
    /\ \E i \in 1..Len(line) : line[i] = "/"
    /\ ~HasPrefix(line, <<"/">>)
    /\ ~HasPrefix(line, <<"*", "*", "/">>)

\* The verdict, for the path, of the filter compiled from the one line.
VerdictOf(line, path) ==
    \E r \in {CompileFilterPatterns(<<line>>, <<>>)} :
        ~r.panic /\ MatchesPath(r.heap, r.patterns, path)

(* C14 as stated: a pattern P that holds a '/' but starts neither with '/' *)
(* nor with "**/" matches a relative path exactly when the pattern '/'     *)
(* followed by P matches it.                                               *)
C14_ImplicitLeadingSlash ==
    (QueriedOneLine /\ AnchoredBySlash(TheLine)) =>
        (ret.matches <=> VerdictOf(<<"/">> \o TheLine, ret.path))

\* C14 for the patterns that do not start with "**".
C14_ExceptDoubleStar ==
    (QueriedOneLine /\ AnchoredBySlash(TheLine) /\ ~HasPrefix(TheLine, <<"*", "*">>)) =>
        (ret.matches <=> VerdictOf(<<"/">> \o TheLine, ret.path))

(* C15: a pattern "N/", N a name, matches the directory N at the root and  *)
(* every path beneath it at any depth, and nothing else: it matches        *)
(* exactly the paths that start with "N/".                                 *)
C15_TrailingSlashMatchesBeneath ==
    QueriedOneLine =>
        \A n \in Names : (TheLine = n \o <<"/">>) =>
            (ret.matches <=> HasPrefix(ret.path, n \o <<"/">>))

\* "N/" matched a path two levels beneath N.
C15_Witness ==
    /\ QueriedOneLine
    /\ \E n \in Names : TheLine = n \o <<"/">> /\ Segments(ret.path)[1] = n
    /\ Len(Segments(ret.path)) = 3
    /\ ret.matches

\* A line of names characters and '?', with a '?'.
QuestionGlob(line) ==
    /\ \A i \in 1..Len(line) : line[i] \in {"a", ".", "?"}
    /\ \E i \in 1..Len(line) : line[i] = "?"

TwoSegments(line, g1, g2) == line = <<"/">> \o g1 \o <<"/">> \o g2

(* C17: a single '*' matches zero or more characters other than '/' and    *)
(* never spans a separator: "/G1/G2" matches a path exactly when the path  *)
(* has two segments or more, G1 matches the first and G2 the second        *)
(* ("/*/*.go" matches "cmd/main.go", neither "main.go" nor                 *)
(* "pkg/sub/util.go").                                                     *)
C17_StarStaysInItsSegment ==
    QueriedOneLine =>
        \A g1 \in SegmentGlobs, g2 \in SegmentGlobs : TwoSegments(TheLine, g1, g2) =>
            (ret.matches <=>
                /\ Len(Segments(ret.path)) >= 2
                /\ GlobMatch(g1, Segments(ret.path)[1])
                /\ GlobMatch(g2, Segments(ret.path)[2]))

\* "/*/*.a" was asked about "a/a/.a" and did not match it.
C17_Witness ==
    /\ QueriedOneLine
    /\ TheLine = <<"/", "*", "/", "*", ".", "a">>
    /\ ret.path = <<"a", "/", "a", "/", ".", "a">>
    /\ ~ret.matches

\* The default of the --filter flag:  *  !.*
DefaultFilter == << <<"*">>, <<"!", ".", "*">> >>

(* C18: with the default patterns "*", "!.*" a path gets verdict true      *)
(* exactly when its first segment does not start with '.'.                 *)
C18_DefaultExcludesTopLevelHidden ==
    (Queried /\ input[ret.name] = DefaultFilter) =>
        (ret.matches <=> ~HasPrefix(Segments(ret.path)[1], <<".">>))

\* A hidden file beneath a directory that is not hidden is included.
C18_Witness ==
    /\ Queried
    /\ input[ret.name] = DefaultFilter
    /\ ret.path = <<"a", "/", ".", "a">>
    /\ ret.matches

(* C19 as stated: with the default filter no path that has a segment       *)
(* starting with '.', at any depth, gets verdict true.                     *)
C19_DefaultExcludesHiddenAtAnyDepth ==
    (Queried /\ input[ret.name] = DefaultFilter) =>
        ((\E k \in 1..Len(Segments(ret.path)) : HasPrefix(Segments(ret.path)[k], <<".">>))
            => ~ret.matches)

\* The patterns reordered: those not negated first, the negated ones after
\* them, each group in its order.
IncludesFirst(patterns) ==
    SelectSeq(patterns, LAMBDA ptr : ~heap[ptr].Negate)
        \o SelectSeq(patterns, LAMBDA ptr : heap[ptr].Negate)

(* C20 as stated: include patterns are processed first and exclude         *)
(* patterns afterwards: for every list and every path the verdict equals   *)
(* the verdict of the list reordered so that all patterns that are not     *)
(* negated precede all negated ones.                                       *)
C20_IncludesBeforeExcludes ==
    Queried =>
        (ret.matches = MatchesPath(heap, IncludesFirst(QueriedPatterns), ret.path))

\* The example of the README:  *.go  *.{js,ts}
BraceExample == << <<"*", ".", "g", "o">>, <<"*", ".", "{", "j", "s", ",", "t", "s", "}">> >>

(* C21 as stated: a pattern with a brace alternative includes the files    *)
(* whose extension is one of the alternatives: with the patterns "*.go",   *)
(* "*.{js,ts}" the paths "a.go", "a.js" and "a.ts" get verdict true.       *)
C21_BraceAlternatives ==
    ( /\ Queried
      /\ input[ret.name] = BraceExample
      /\ ret.path \in {<<"a", ".", "g", "o">>, <<"a", ".", "j", "s">>, <<"a", ".", "t", "s">>} )
    => ret.matches

(* C28 as stated: CompileFilterPatterns produces exactly one pattern, in   *)
(* input order, for every input line that is not empty after trimming and  *)
(* does not start with '#': the number of patterns is the number of such   *)
(* lines.                                                                  *)
C28_OnePatternPerLine ==
    \A name \in Filters : filters[name].made =>
        /\ Len(filters[name].patterns) = Len(WithoutSkippable(input[name]))
        /\ \A k \in 1..Len(filters[name].patterns) :
              k <= Len(WithoutSkippable(input[name])) =>
                  heap[filters[name].patterns[k]].Line
                      = TrimSpace(TrimRightCR(WithoutSkippable(input[name])[k]))

(* C29: MatchesPathHow returns verdict true exactly when the deciding      *)
(* pattern it returns exists and is not negated (so with verdict false the *)
(* deciding pattern is none or negated), and a deciding pattern it returns *)
(* is a pattern of the set whose matcher matches the path.                 *)
C29_VerdictAgreesWithDecidingPattern ==
    Queried =>
        /\ ret.matches <=> (ret.how # NilPattern /\ ~heap[ret.how].Negate)
        /\ (ret.how # NilPattern) =>
              /\ \E k \in 1..Len(QueriedPatterns) : QueriedPatterns[k] = ret.how
              /\ Matches(ret.how, ret.path)

\* Verdict false, decided by a negated pattern after an inclusion.
C29_Witness ==
    /\ Queried
    /\ ~ret.matches
    /\ ret.how # NilPattern
    /\ heap[ret.how].Negate
    /\ Len(QueriedPatterns) >= 2

\* The last merge or NegateAll call, and the two kinds of merge.
LastCall == log[Len(log)]
Merges == {"MergeWithPrecedence", "MergeWithoutPrecedence"}

\* The positions of the patterns, in a heap, whose matcher matches the path.
MatchingIn(hp, patterns, path) ==
    {k \in 1..Len(patterns) : MatchString(hp[patterns[k]].Pattern, ToSlash(path))}

\* The Pattern objects a patterns slice refers to, in its order.
Objects(hp, patterns) == [k \in 1..Len(patterns) |-> hp[patterns[k]]]

\* The number of '!' a line starts with.
RECURSIVE LeadingBangs(_)
LeadingBangs(line) ==
    IF Len(line) > 0 /\ Head(line) = "!" THEN 1 + LeadingBangs(Tail(line)) ELSE 0

\* Before the i-th call the Filter n was as compiled: no earlier call had it
\* as its receiver or as its argument.
Fresh(n, i) == \A j \in 1..(i - 1) : log[j].name # n /\ log[j].other # n

(* C22: f.MergeWithPrecedence(g) makes the patterns of f its former        *)
(* patterns followed by those of g, f.MergeWithoutPrecedence(g) those of g *)
(* followed by the former patterns of f; so after MergeWithPrecedence a    *)
(* path some pattern of g matches gets the polarity of the last pattern of *)
(* g that matches it, and after MergeWithoutPrecedence a path some former  *)
(* pattern of f matches gets the polarity of the last former pattern of f  *)
(* that matches it.                                                        *)
C22_MergeConcatenates ==
    (log # <<>> /\ LastCall.op \in Merges) =>
        LET own == LastCall.filters[LastCall.name].patterns
            theirs == LastCall.filters[LastCall.other].patterns
            now == filters[LastCall.name].patterns
            deciding == IF LastCall.op = "MergeWithPrecedence" THEN theirs ELSE own
        IN  /\ now = IF LastCall.op = "MergeWithPrecedence" THEN own \o theirs ELSE theirs \o own
            /\ \A path \in PathPool :
                  MatchingIn(heap, deciding, path) # {} =>
                      (MatchesPath(heap, now, path)
                          = ~heap[deciding[Greatest(MatchingIn(heap, deciding, path))]].Negate)

\* g merged with precedence into another, non-empty f overrides the verdict
\* f had for some path.
C22_Witness ==
    /\ log # <<>>
    /\ LastCall.op = "MergeWithPrecedence"
    /\ LastCall.name # LastCall.other
    /\ LastCall.filters[LastCall.name].patterns # <<>>
    /\ LastCall.filters[LastCall.other].patterns # <<>>
    /\ \E path \in PathPool :
          MatchesPath(heap, filters[LastCall.name].patterns, path)
              # MatchesPath(heap, LastCall.filters[LastCall.name].patterns, path)

(* C23 as stated: merging never makes two Filters share mutable storage:   *)
(* after a merge of f and g, a later NegateAll or merge on one of them     *)
(* leaves the pattern sequence, the negation flags, the Line texts and the *)
(* verdicts of the other unchanged.                                        *)
C23_MergeSharesNoStorage ==
    log # <<>> =>
        \A n \in MergeFilters \ {LastCall.name} :
            (\E j \in 1..(Len(log) - 1) :
                 /\ log[j].op \in Merges
                 /\ {log[j].name, log[j].other} = {LastCall.name, n})
            => /\ filters[n].patterns = LastCall.filters[n].patterns
               /\ Objects(heap, filters[n].patterns)
                      = Objects(LastCall.heap, LastCall.filters[n].patterns)
               /\ \A path \in PathPool :
                      MatchesPath(heap, filters[n].patterns, path)
                          = MatchesPath(LastCall.heap, LastCall.filters[n].patterns, path)

(* C24 as stated: for any Filter built by compile and merge operations,    *)
(* NegateAll inverts the Negate flag of every pattern of the set and adds  *)
(* or removes one leading '!' of its Line, so that Negate stays the parity *)
(* of the number of leading '!' of the Line, while the matcher, the LineNo *)
(* and the position of every pattern stay as they were.                    *)
C24_NegateAllInvertsEveryPattern ==
    (log # <<>> /\ LastCall.op = "NegateAll") =>
        /\ filters[LastCall.name].patterns = LastCall.filters[LastCall.name].patterns
        /\ \A k \in 1..Len(filters[LastCall.name].patterns) :
              LET new == heap[filters[LastCall.name].patterns[k]]
                  old == LastCall.heap[filters[LastCall.name].patterns[k]]
              IN  /\ new.Negate = ~old.Negate
                  /\ \/ new.Line = <<"!">> \o old.Line
                     \/ old.Line = <<"!">> \o new.Line
                  /\ new.Negate = (LeadingBangs(new.Line) % 2 = 1)
                  /\ new.Pattern = old.Pattern
                  /\ new.LineNo = old.LineNo

\* The last call was NegateAll, on a Filter that was as compiled.
NegatedFresh ==
    /\ log # <<>>
    /\ LastCall.op = "NegateAll"
    /\ Fresh(LastCall.name, Len(log))

\* The verdict of the Filter of the last call before that call, and now.
VerdictBefore(path) == MatchesPath(LastCall.heap, LastCall.filters[LastCall.name].patterns, path)
VerdictNow(path) == MatchesPath(heap, filters[LastCall.name].patterns, path)

(* C25 as stated: NegateAll turns a freshly compiled pattern set into its  *)
(* complement: for every path the verdict after NegateAll is the negation  *)
(* of the verdict before it.                                               *)
C25_NegateAllComplements ==
    NegatedFresh => \A path \in PathPool : VerdictNow(path) = ~VerdictBefore(path)

(* C25 amended: on a freshly compiled pattern set NegateAll negates the    *)
(* verdict of every path that the matcher of at least one pattern matches; *)
(* a path no pattern matches has verdict false before and after.           *)
C25_NegateAllComplementsMatchedPaths ==
    NegatedFresh =>
        \A path \in PathPool :
            IF MatchingIn(heap, filters[LastCall.name].patterns, path) # {}
            THEN VerdictNow(path) = ~VerdictBefore(path)
            ELSE ~VerdictNow(path) /\ ~VerdictBefore(path)

\* NegateAll on a fresh Filter turned the verdict of a matched path from
\* false to true, and left a path no pattern matches at false.
C25_Witness ==
    /\ NegatedFresh
    /\ \E path \in PathPool :
          /\ MatchingIn(heap, filters[LastCall.name].patterns, path) # {}
          /\ ~VerdictBefore(path)
          /\ VerdictNow(path)
    /\ \E path \in PathPool : MatchingIn(heap, filters[LastCall.name].patterns, path) = {}

\* The last two calls were NegateAll on one Filter, which was as compiled
\* before the first of them.
NegatedTwice ==
    /\ Len(log) >= 2
    /\ LastCall.op = "NegateAll"
    /\ log[Len(log) - 1].op = "NegateAll"
    /\ log[Len(log) - 1].name = LastCall.name
    /\ Fresh(LastCall.name, Len(log) - 1)

\* The Pattern objects of that Filter before the first of the two calls.
ObjectsAtFirst == Objects(log[Len(log) - 1].heap, filters[LastCall.name].patterns)

(* C30 as stated: NegateAll is an involution on a freshly compiled Filter: *)
(* applied twice it restores the Negate flag and the Line of every pattern *)
(* and so every verdict.                                                   *)
C30_NegateAllIsInvolution ==
    NegatedTwice =>
        /\ Objects(heap, filters[LastCall.name].patterns) = ObjectsAtFirst
        /\ \A path \in PathPool :
              VerdictNow(path)
                  = MatchesPath(log[Len(log) - 1].heap, filters[LastCall.name].patterns, path)

(* C30 amended: NegateAll applied twice to a freshly compiled Filter       *)
(* restores the Negate flag of every pattern and every verdict; it         *)
(* restores the Line of a pattern that had at most one leading '!', and    *)
(* leaves a Line that had two or more leading '!' with two fewer.          *)
C30_NegateAllTwiceRestoresFlags ==
    NegatedTwice =>
        /\ \A k \in 1..Len(ObjectsAtFirst) :
              LET new == heap[filters[LastCall.name].patterns[k]]
                  old == ObjectsAtFirst[k]
              IN  /\ new.Negate = old.Negate
                  /\ new.Pattern = old.Pattern
                  /\ new.LineNo = old.LineNo
                  /\ new.Line = IF LeadingBangs(old.Line) <= 1 THEN old.Line
                                ELSE SliceFrom(old.Line, 2)
        /\ \A path \in PathPool :
              VerdictNow(path)
                  = MatchesPath(log[Len(log) - 1].heap, filters[LastCall.name].patterns, path)

\* Two calls of NegateAll on a Filter with a line of one '!' and a line of
\* two.
C30_Witness ==
    /\ NegatedTwice
    /\ \E k \in 1..Len(ObjectsAtFirst) : LeadingBangs(ObjectsAtFirst[k].Line) = 1
    /\ \E k \in 1..Len(ObjectsAtFirst) : LeadingBangs(ObjectsAtFirst[k].Line) >= 2

\* TraverseDirectory was called and returned no error.
Traversed == walk.op = "TraverseDirectory" /\ ~walk.err

\* The lines of the gitignore files, one file after the other.
RECURSIVE AllGitignoreLines(_)
AllGitignoreLines(gitignorePaths) ==
    IF gitignorePaths = <<>> THEN <<>>
    ELSE Split(GitignoreFiles[Head(gitignorePaths)], "\n")
             \o AllGitignoreLines(Tail(gitignorePaths))

\* The verdict of the pattern set compiled from the lines, on a path.
VerdictOfLines(lines, path) ==
    LET r == CompileFilterPatterns(lines, <<>>) IN MatchesPath(r.heap, r.patterns, path)

\* The files the walk visits, and those TraverseDirectory returned an entry
\* for.
WalkedFiles == {Visited[k].path : k \in {j \in 1..Len(Visited) : ~Visited[j].isDir}}
FileEntries == {walk.paths[k].Path : k \in {j \in 1..Len(walk.paths) : ~walk.paths[j].IsDir}}

(* C26: TraverseDirectory returns a file entry for a walked file exactly   *)
(* when the verdict of the filter flag's pattern set on the file's path    *)
(* relative to the base directory is true and the verdict of the gitignore *)
(* pattern set is false, the gitignore pattern set being the patterns of   *)
(* all gitignore files in the order the files are given.                   *)
C26_ReturnsFilteredAndNotIgnored ==
    Traversed =>
        /\ FileEntries \subseteq WalkedFiles
        /\ \A file \in WalkedFiles :
              file \in FileEntries
                  <=> /\ VerdictOfLines(walk.filterPatterns, Rel(BasePath, file))
                      /\ ~VerdictOfLines(AllGitignoreLines(walk.gitignorePaths),
                                         Rel(BasePath, file))

\* Two gitignore files: a file the first one alone ignores is returned
\* because the second one overrides it, and another file the filter flag
\* includes is not returned.
C26_Witness ==
    /\ Traversed
    /\ Len(walk.gitignorePaths) = 2
    /\ \E file \in FileEntries :
          VerdictOfLines(AllGitignoreLines(<<walk.gitignorePaths[1]>>), Rel(BasePath, file))
    /\ \E file \in WalkedFiles \ FileEntries :
          VerdictOfLines(walk.filterPatterns, Rel(BasePath, file))

\* processPaths was called and returned no error.
Processed == walk.op = "processPaths" /\ ~walk.err

\* The absolute paths of the directories above an entry, and the entries
\* processPaths added behind the given ones.
AncestorsOf(e) ==
    { SubSeq(e.Path, 1, Len(e.Path) - Len(e.RelativePath))
          \o JoinSlash(SubSeq(Segments(e.RelativePath), 1, n)) :
      n \in 1..(Len(Segments(e.RelativePath)) - 1) }
AddedPositions == (Len(walk.given) + 1)..Len(walk.paths)

\* The first of the given entries that lies beneath the directory.
FirstBeneath(dir) ==
    CHOOSE i \in 1..Len(walk.given) :
        /\ dir \in AncestorsOf(walk.given[i])
        /\ \A j \in 1..(i - 1) : dir \notin AncestorsOf(walk.given[j])

====
